---- MODULE Spec2Model ----
\* RSICheck: the rule-based signal classifier (src/signal_generator.py) over the
\* features the RSI calculator (src/rsi_calculator.py) derives from a data frame.
\*
\* A data frame is modelled by what generate_signal reads of it:
\*   len          number of rows
\*   cols         the columns present
\*   Close, MA_20, MA_50   values on the latest row (MA_20/MA_50: the rolling
\*                means, whether stored as columns or computed at line 57-58)
\*   RSI_Short, RSI_Medium   the last three values, oldest first
\*   RSI_Long     the value on the latest row
\*   div15        what lines 302-336 of detect_rsi_divergence compute on the
\*                last 15 rows of Close and RSI_Medium (divergence_on_window;
\*                the frames of SpecDivergence carry these rows as Close15
\*                and RSI15)
\* RSI values are integers 0..100 or NaN.  Strengths are exact rationals held
\* as integers in units of 1/Scale (float rounding is not modelled).
\* calculate_rsi_slope (line 74) is computed by the code but never read, and
\* is left out.
\*
\* Specifications:
\*   Spec            generate_signal on one frame (or None)
\*   SpecTrend       detect_trend, is_trend_strong around the 5% / 3% margins
\*   SpecReversal    detect_rsi_reversal with lookback 1..MaxLookback
\*   SpecDivergence  detect_rsi_divergence on explicit 15-row windows
\*   SpecRsi         calculate_rsi on whole Close columns, in exact rationals
\*   SpecBatch       get_all_signals on a symbol -> frame mapping
\*   SpecStages      the stages called in any order on frame objects
\*   SpecFetch       get_all_stocks_data: the main thread and the pool's workers
EXTENDS Integers, Sequences, FiniteSets, TLC

VARIABLES
    data,     \* what the caller supplied: the frame generate_signal (or a
              \* detector) is called with, the symbol mapping of get_all_signals,
              \* or, in SpecStages, each frame as it was when the caller got it
    pc,       \* "call" before the call, "done" after generate_signal returned or
              \* raised, "returned" after another operation did
    locals,   \* the locals generate_signal computed at lines 61-107, if it got there
    result,   \* the (signal, description, strength) generate_signal returned, or
              \* the operation, arguments and value of another call
    heap,     \* SpecStages: the frame objects alive between calls, by reference
    config,   \* the periods the RSICalculator was constructed with
    futures   \* SpecFetch: the state of each fetch submitted to the thread pool

vars == <<data, pc, locals, result, heap, config, futures>>

----------------------------------------------------------------------------
\* Values

\* RSICalculator.__init__ defaults
DefaultConfig == [short_period |-> 9, medium_period |-> 14, long_period |-> 26]

NaN == 0 - 1
None == 0 - 2
IsNaN(x) == x = NaN
IsNum(x) == x # NaN /\ x # None

\* IEEE comparisons: every comparison with NaN is False
Lt(a, b) == IsNum(a) /\ IsNum(b) /\ a < b
Le(a, b) == IsNum(a) /\ IsNum(b) /\ a <= b
Gt(a, b) == Lt(b, a)
Ge(a, b) == Le(b, a)

Min(a, b) == IF b < a THEN b ELSE a
Max(a, b) == IF b > a THEN b ELSE a

\* strength s is held as the integer s * Scale
Scale == 12 * 100
\* multipliers (1.2, 1.3, 0.7, 0.8) are held in tenths
TimesTenths(x, m) == (x * m) \div 10

----------------------------------------------------------------------------
\* SignalGenerator class constants

STRONG_BUY == "StrongBuy"
BUY == "Buy"
HOLD == "Hold"
SELL == "Sell"
STRONG_SELL == "StrongSell"

DEFAULT_BUY_THRESHOLD == 30
DEFAULT_SELL_THRESHOLD == 70
UPTREND_SELL_THRESHOLD == 75
STRONG_UPTREND_SELL_THRESHOLD == 80
STRONG_UPTREND_SELL_OFFSET == 5
DOWNTREND_BUY_THRESHOLD == 27
STRONG_DOWNTREND_BUY_THRESHOLD == 25

\* 1.2, 1.3, 1.3 in tenths
DIVERGENCE_STRENGTH_MULTIPLIER == 12
DIVERGENCE_BUY_MULTIPLIER == 13
DIVERGENCE_SELL_MULTIPLIER == 13

\* RSICalculator class constants (percent)
STRONG_TREND_PRICE_THRESHOLD == 5
STRONG_TREND_MA_THRESHOLD == 3

----------------------------------------------------------------------------
\* RSICalculator

\* an exception leaving a call
Raise(exception) == [signal |-> "raise", description |-> exception, strength |-> 0]

\* calculate_rsi, on a frame that carries its whole Close column as Closes.
\* Floats are exact rationals [num, den]; den = 0 marks NaN (num = 0) and
\* +inf (num = 1).  Both averages of a row share the denominator
\* (period+1)^(row-1), so only their numerators are kept.
Rat(num, den) == [num |-> num, den |-> den]
NaNFloat == Rat(0, 0)
InfFloat == Rat(1, 0)

RECURSIVE Pow(_, _)
Pow(b, n) == IF n = 0 THEN 1 ELSE b * Pow(b, n - 1)

\* data['Close'].diff(): NaN on the first row
delta(closes, i) == IF i = 1 THEN NaN ELSE closes[i] - closes[i-1]

\* delta.where(delta > 0, 0.0); the comparison is False on the first row's NaN
gain(closes, i) == IF i > 1 /\ delta(closes, i) > 0 THEN delta(closes, i) ELSE 0

\* -delta.where(delta < 0, 0.0)
loss(closes, i) == IF i > 1 /\ delta(closes, i) < 0 THEN 0 - delta(closes, i) ELSE 0

\* x.ewm(span=period, adjust=False).mean() on row i, times (period+1)^(i-1):
\* y[1] = x[1], y[i] = ((period-1) * y[i-1] + 2 * x[i]) / (period+1)
RECURSIVE avg_gain(_, _, _)
avg_gain(closes, period, i) ==
    IF i = 1 THEN gain(closes, 1)
    ELSE (period - 1) * avg_gain(closes, period, i - 1)
         + 2 * gain(closes, i) * Pow(period + 1, i - 2)

RECURSIVE avg_loss(_, _, _)
avg_loss(closes, period, i) ==
    IF i = 1 THEN loss(closes, 1)
    ELSE (period - 1) * avg_loss(closes, period, i - 1)
         + 2 * loss(closes, i) * Pow(period + 1, i - 2)

\* avg_gain / avg_loss in float arithmetic: 0/0 is NaN, x/0 is inf for x > 0
rs(g, l) ==
    IF l = 0 THEN (IF g = 0 THEN NaNFloat ELSE InfFloat) ELSE Rat(g, l)

\* 100 - (100 / (1 + rs)): NaN stays NaN, inf gives 100
rsi_from_rs(x) ==
    IF x = NaNFloat THEN NaNFloat
    ELSE IF x = InfFloat THEN Rat(100, 1)
    ELSE Rat(100 * x.num, x.num + x.den)

calculate_rsi(d, period) ==
    IF "Close" \notin d.cols THEN Raise("ValueError")
    ELSE [ i \in 1..Len(d.Closes) |->
             rsi_from_rs(rs(avg_gain(d.Closes, period, i), avg_loss(d.Closes, period, i))) ]

\* data[col].iloc[-1] if col in data.columns else None
get_latest_rsi_values(d) ==
    IF d.len = 0 THEN <<None, None, None>>
    ELSE << IF "RSI_Short" \in d.cols THEN d.RSI_Short[Len(d.RSI_Short)] ELSE None,
            IF "RSI_Medium" \in d.cols THEN d.RSI_Medium[Len(d.RSI_Medium)] ELSE None,
            IF "RSI_Long" \in d.cols THEN d.RSI_Long ELSE None >>

\* data[rsi_column].iloc[-(lookback+1):].values
recent_values(d, rsi_column, lookback) ==
    LET w == d[rsi_column]
    IN  SubSeq(w, Len(w) - lookback, Len(w))

\* faulty variant: the values before the turn must strictly fall (or rise)
detect_rsi_reversal_Strict(d, rsi_column, lookback) ==
    IF rsi_column \notin d.cols \/ d.len < lookback + 1 THEN "none"
    ELSE LET rv == recent_values(d, rsi_column, lookback)
             n == Len(rv)
         IN  IF n < lookback + 1 \/ \E i \in 1..n : IsNaN(rv[i]) THEN "none"
             ELSE IF rv[n] > rv[n-1] /\ \A i \in 1..(n-2) : rv[i] > rv[i+1] THEN "up"
             ELSE IF rv[n] < rv[n-1] /\ \A i \in 1..(n-2) : rv[i] < rv[i+1] THEN "down"
             ELSE "none"

detect_rsi_reversal(d, rsi_column, lookback) ==
    IF rsi_column \notin d.cols \/ d.len < lookback + 1 THEN "none"
    ELSE LET rv == recent_values(d, rsi_column, lookback)
             n == Len(rv)
         IN  IF n < lookback + 1 \/ \E i \in 1..n : IsNaN(rv[i]) THEN "none"
             ELSE IF rv[n] > rv[n-1] /\ \A i \in 1..(n-2) : rv[i] >= rv[i+1] THEN "up"
             ELSE IF rv[n] < rv[n-1] /\ \A i \in 1..(n-2) : rv[i] <= rv[i+1] THEN "down"
             ELSE "none"

is_rsi_rising(d, rsi_column, lookback) ==
    IF rsi_column \notin d.cols \/ d.len < lookback + 1 THEN FALSE
    ELSE LET rv == recent_values(d, rsi_column, lookback)
             n == Len(rv)
         IN  IF n < lookback + 1 \/ \E i \in 1..n : IsNaN(rv[i]) THEN FALSE
             ELSE \A i \in 1..(n-1) : rv[i] < rv[i+1]

is_rsi_falling(d, rsi_column, lookback) ==
    IF rsi_column \notin d.cols \/ d.len < lookback + 1 THEN FALSE
    ELSE LET rv == recent_values(d, rsi_column, lookback)
             n == Len(rv)
         IN  IF n < lookback + 1 \/ \E i \in 1..n : IsNaN(rv[i]) THEN FALSE
             ELSE \A i \in 1..(n-1) : rv[i] > rv[i+1]

\* faulty variant: the comparisons admit equality
detect_trend_NonStrict(d) ==
    IF d.len = 0 \/ d.len < 50 THEN "neutral"
    ELSE IF IsNaN(d.MA_20) \/ IsNaN(d.MA_50) THEN "neutral"
    ELSE IF d.Close >= d.MA_20 /\ d.MA_20 >= d.MA_50 THEN "uptrend"
    ELSE IF d.Close <= d.MA_20 /\ d.MA_20 <= d.MA_50 THEN "downtrend"
    ELSE "neutral"

detect_trend(d) ==
    IF d.len = 0 \/ d.len < 50 THEN "neutral"
    ELSE IF IsNaN(d.MA_20) \/ IsNaN(d.MA_50) THEN "neutral"
    ELSE IF d.Close > d.MA_20 /\ d.MA_20 > d.MA_50 THEN "uptrend"
    ELSE IF d.Close < d.MA_20 /\ d.MA_20 < d.MA_50 THEN "downtrend"
    ELSE "neutral"

\* (a - b) / b * 100 > t, for b > 0
PercentAbove(a, b, t) == (a - b) * 100 > t * b

\* faulty variant: the margins admit equality
is_trend_strong_NonStrict(d, trend) ==
    IF d.len = 0 \/ d.len < 50 THEN FALSE
    ELSE IF IsNaN(d.MA_20) \/ IsNaN(d.MA_50) THEN FALSE
    ELSE IF trend = "uptrend"
         THEN (d.Close - d.MA_20) * 100 >= STRONG_TREND_PRICE_THRESHOLD * d.MA_20
              /\ (d.MA_20 - d.MA_50) * 100 >= STRONG_TREND_MA_THRESHOLD * d.MA_50
    ELSE IF trend = "downtrend"
         THEN (d.MA_20 - d.Close) * 100 >= STRONG_TREND_PRICE_THRESHOLD * d.MA_20
              /\ (d.MA_50 - d.MA_20) * 100 >= STRONG_TREND_MA_THRESHOLD * d.MA_50
    ELSE FALSE

is_trend_strong(d, trend) ==
    IF d.len = 0 \/ d.len < 50 THEN FALSE
    ELSE IF IsNaN(d.MA_20) \/ IsNaN(d.MA_50) THEN FALSE
    ELSE IF trend = "uptrend"
         THEN PercentAbove(d.Close, d.MA_20, STRONG_TREND_PRICE_THRESHOLD)
              /\ PercentAbove(d.MA_20, d.MA_50, STRONG_TREND_MA_THRESHOLD)
    ELSE IF trend = "downtrend"
         THEN (d.MA_20 - d.Close) * 100 > STRONG_TREND_PRICE_THRESHOLD * d.MA_20
              /\ (d.MA_50 - d.MA_20) * 100 > STRONG_TREND_MA_THRESHOLD * d.MA_50
    ELSE FALSE

\* np.min / np.max of a non-empty array
RECURSIVE np_min(_)
np_min(w) == IF Len(w) = 1 THEN w[1] ELSE Min(w[1], np_min(Tail(w)))

RECURSIVE np_max(_)
np_max(w) == IF Len(w) = 1 THEN w[1] ELSE Max(w[1], np_max(Tail(w)))

\* values[:lookback//2] and values[lookback//2:]
first_half(w, lookback) == SubSeq(w, 1, lookback \div 2)
second_half(w, lookback) == SubSeq(w, lookback \div 2 + 1, Len(w))

\* faulty variant: the RSI lows (highs) of the two halves are not compared
divergence_on_window_PriceOnly(prices, rsi_values, lookback) ==
    IF \E i \in 1..Len(prices) : IsNaN(prices[i]) \/ IsNaN(rsi_values[i]) THEN "none"
    ELSE LET price_change == prices[Len(prices)] - prices[1]
             rsi_change == rsi_values[Len(rsi_values)] - rsi_values[1]
         IN  IF /\ price_change < 0 /\ rsi_change > 0
                /\ np_min(second_half(prices, lookback)) < np_min(first_half(prices, lookback))
             THEN "bullish"
             ELSE IF /\ price_change > 0 /\ rsi_change < 0
                     /\ np_max(second_half(prices, lookback)) > np_max(first_half(prices, lookback))
             THEN "bearish"
             ELSE "none"

\* lines 302-336: the comparison on the last lookback+1 rows of Close and of
\* the RSI column
divergence_on_window(prices, rsi_values, lookback) ==
    IF \E i \in 1..Len(prices) : IsNaN(prices[i]) \/ IsNaN(rsi_values[i]) THEN "none"
    ELSE LET price_change == prices[Len(prices)] - prices[1]
             rsi_change == rsi_values[Len(rsi_values)] - rsi_values[1]
         IN  IF /\ price_change < 0 /\ rsi_change > 0
                /\ np_min(second_half(prices, lookback)) < np_min(first_half(prices, lookback))
                /\ np_min(second_half(rsi_values, lookback)) > np_min(first_half(rsi_values, lookback))
             THEN "bullish"
             ELSE IF /\ price_change > 0 /\ rsi_change < 0
                     /\ np_max(second_half(prices, lookback)) > np_max(first_half(prices, lookback))
                     /\ np_max(second_half(rsi_values, lookback)) < np_max(first_half(rsi_values, lookback))
             THEN "bearish"
             ELSE "none"

detect_rsi_divergence(d, rsi_column, lookback) ==
    IF d.len = 0 \/ d.len < lookback + 1 THEN "none"
    ELSE IF rsi_column \notin d.cols \/ "Close" \notin d.cols THEN "none"
    ELSE d.div15

----------------------------------------------------------------------------
\* SignalGenerator: strength formulas

\* max(0, (30 - short_rsi) / 30 * 50); max(0, nan) is 0
buy_short_strength(short_rsi) ==
    IF IsNaN(short_rsi) THEN 0 ELSE Max(0, ((30 - short_rsi) * 50 * Scale) \div 30)

\* max(0, (40 - medium_rsi) / 40 * 30)
buy_medium_strength(medium_rsi) ==
    IF IsNaN(medium_rsi) THEN 0 ELSE Max(0, ((40 - medium_rsi) * 30 * Scale) \div 40)

\* faulty variant: the long-RSI points start at 50 instead of 30
buy_long_strength_From50(long_rsi) ==
    IF Ge(long_rsi, 50) THEN Min(20 * Scale, ((long_rsi - 50) * 20 * Scale) \div 20) ELSE 0

\* min(20, (long_rsi - 30) / 20 * 20) if long_rsi >= 30 else 0
buy_long_strength(long_rsi) ==
    IF Ge(long_rsi, 30) THEN Min(20 * Scale, ((long_rsi - 30) * 20 * Scale) \div 20) ELSE 0

_calculate_buy_strength(short_rsi, medium_rsi, long_rsi) ==
    LET total_strength == buy_short_strength(short_rsi) + buy_medium_strength(medium_rsi)
                          + buy_long_strength(long_rsi)
    IN  Min(100 * Scale, total_strength)

\* max(0, (short_rsi - 70) / 30 * 50)
sell_short_strength(short_rsi) ==
    IF IsNaN(short_rsi) THEN 0 ELSE Max(0, ((short_rsi - 70) * 50 * Scale) \div 30)

\* max(0, (medium_rsi - 60) / 40 * 30)
sell_medium_strength(medium_rsi) ==
    IF IsNaN(medium_rsi) THEN 0 ELSE Max(0, ((medium_rsi - 60) * 30 * Scale) \div 40)

\* max(0, (long_rsi - 70) / 30 * 20)
sell_long_strength(long_rsi) ==
    IF IsNaN(long_rsi) THEN 0 ELSE Max(0, ((long_rsi - 70) * 20 * Scale) \div 30)

_calculate_sell_strength(short_rsi, medium_rsi, long_rsi) ==
    LET total_strength == sell_short_strength(short_rsi) + sell_medium_strength(medium_rsi)
                          + sell_long_strength(long_rsi)
    IN  Min(100 * Scale, total_strength)

\* faulty variant: the cap at 100 is forgotten
divergence_boost_NoCap(strength, multiplier) == TimesTenths(strength, multiplier)

\* strength = min(100, strength * multiplier)
divergence_boost(strength, multiplier) == Min(100 * Scale, TimesTenths(strength, multiplier))

----------------------------------------------------------------------------
\* SignalGenerator.generate_signal: dynamic thresholds (lines 82-107)

sell_threshold(trend, trend_strong) ==
    IF trend = "uptrend" /\ trend_strong THEN STRONG_UPTREND_SELL_THRESHOLD
    ELSE IF trend = "uptrend" THEN UPTREND_SELL_THRESHOLD
    ELSE DEFAULT_SELL_THRESHOLD

\* faulty variant: the strong-uptrend offset is forgotten
strong_sell_threshold_NoOffset(trend, trend_strong) ==
    IF trend = "uptrend" /\ trend_strong THEN STRONG_UPTREND_SELL_THRESHOLD
    ELSE IF trend = "uptrend" THEN STRONG_UPTREND_SELL_THRESHOLD
    ELSE DEFAULT_SELL_THRESHOLD

strong_sell_threshold(trend, trend_strong) ==
    IF trend = "uptrend" /\ trend_strong
    THEN STRONG_UPTREND_SELL_THRESHOLD + STRONG_UPTREND_SELL_OFFSET
    ELSE IF trend = "uptrend" THEN STRONG_UPTREND_SELL_THRESHOLD
    ELSE DEFAULT_SELL_THRESHOLD

\* faulty variant: the strong-downtrend branch uses the plain downtrend constant
buy_threshold_Plain(trend, trend_strong) ==
    IF trend = "downtrend" THEN DOWNTREND_BUY_THRESHOLD ELSE DEFAULT_BUY_THRESHOLD

buy_threshold(trend, trend_strong) ==
    IF trend = "downtrend" /\ trend_strong THEN STRONG_DOWNTREND_BUY_THRESHOLD
    ELSE IF trend = "downtrend" THEN DOWNTREND_BUY_THRESHOLD
    ELSE DEFAULT_BUY_THRESHOLD

strong_buy_threshold(trend, trend_strong) ==
    IF trend = "downtrend" /\ trend_strong THEN STRONG_DOWNTREND_BUY_THRESHOLD
    ELSE IF trend = "downtrend" THEN DOWNTREND_BUY_THRESHOLD
    ELSE DEFAULT_BUY_THRESHOLD

----------------------------------------------------------------------------
\* SignalGenerator.generate_signal: the locals computed at lines 61-107

Features(d) ==
    LET latest == get_latest_rsi_values(d)
        trend == detect_trend(d)
        trend_strong == is_trend_strong(d, trend)
    IN  [ short_rsi |-> latest[1], medium_rsi |-> latest[2], long_rsi |-> latest[3],
          trend |-> trend, trend_strong |-> trend_strong,
          divergence |-> detect_rsi_divergence(d, "RSI_Medium", 14),
          short_reversal |-> detect_rsi_reversal(d, "RSI_Short", 2),
          medium_rising |-> is_rsi_rising(d, "RSI_Medium", 2),
          medium_falling |-> is_rsi_falling(d, "RSI_Medium", 2),
          sell_threshold |-> sell_threshold(trend, trend_strong),
          strong_sell_threshold |-> strong_sell_threshold(trend, trend_strong),
          buy_threshold |-> buy_threshold(trend, trend_strong),
          strong_buy_threshold |-> strong_buy_threshold(trend, trend_strong) ]

\* faulty variant: the long-RSI condition is dropped
StrongBuyRule_NoLong(f) ==
    /\ Le(f.short_rsi, f.strong_buy_threshold) /\ f.short_reversal = "up"
    /\ Le(f.strong_buy_threshold, f.medium_rsi) /\ Le(f.medium_rsi, 50) /\ f.medium_rising

\* the rule conditions, in the order the code tests them
StrongBuyRule(f) ==
    /\ Le(f.short_rsi, f.strong_buy_threshold) /\ f.short_reversal = "up"
    /\ Le(f.strong_buy_threshold, f.medium_rsi) /\ Le(f.medium_rsi, 50) /\ f.medium_rising
    /\ Ge(f.long_rsi, 50)

\* faulty variant: the Buy rule does not look at the short RSI
BuyRule_MediumOnly(f) == Le(f.medium_rsi, 40)

\* faulty variant: strict comparison with buy_threshold
BuyRule_Strict(f) == Lt(f.short_rsi, f.buy_threshold) /\ Le(f.medium_rsi, 40)

BuyRule(f) == Le(f.short_rsi, f.buy_threshold) /\ Le(f.medium_rsi, 40)

StrongUptrendGuard(f) == f.trend = "uptrend" /\ f.trend_strong

\* faulty variant: the guard sells without waiting for the 'down' reversal
GuardSellRule_NoReversal(f) == Ge(f.short_rsi, 85)

GuardSellRule(f) == Ge(f.short_rsi, 85) /\ f.short_reversal = "down"

GuardHoldRule(f) == Ge(f.short_rsi, f.sell_threshold)

\* faulty variant: medium RSI need not be falling
StrongSellRule_NoFalling(f) ==
    /\ Ge(f.short_rsi, f.strong_sell_threshold) /\ f.short_reversal = "down"
    /\ Ge(f.medium_rsi, f.sell_threshold)
    /\ Ge(f.long_rsi, f.sell_threshold)

StrongSellRule(f) ==
    /\ Ge(f.short_rsi, f.strong_sell_threshold) /\ f.short_reversal = "down"
    /\ Ge(f.medium_rsi, f.sell_threshold) /\ f.medium_falling
    /\ Ge(f.long_rsi, f.sell_threshold)

\* faulty variant: strict comparison of medium RSI with 60
SellRule_Strict(f) == Ge(f.short_rsi, f.sell_threshold) /\ Gt(f.medium_rsi, 60)

SellRule(f) == Ge(f.short_rsi, f.sell_threshold) /\ Ge(f.medium_rsi, 60)

Signal(signal, description, strength) ==
    [signal |-> signal, description |-> description, strength |-> strength]

StrongBuySignal(f) ==
    LET strength == _calculate_buy_strength(f.short_rsi, f.medium_rsi, f.long_rsi)
    IN  IF f.divergence = "bullish"
        THEN Signal(STRONG_BUY, "bullish divergence, short reversal up",
                    divergence_boost(strength, DIVERGENCE_STRENGTH_MULTIPLIER))
        ELSE Signal(STRONG_BUY, "short reversal up", strength)

BuySignal(f) ==
    LET strength == TimesTenths(_calculate_buy_strength(f.short_rsi, f.medium_rsi, f.long_rsi), 7)
    IN  IF f.divergence = "bullish"
        THEN Signal(BUY, "bullish divergence, short oversold",
                    divergence_boost(strength, DIVERGENCE_BUY_MULTIPLIER))
        ELSE Signal(BUY, "short oversold", strength)

GuardSellSignal(f) ==
    Signal(SELL, "strong uptrend, short reversal down",
           TimesTenths(_calculate_sell_strength(f.short_rsi, f.medium_rsi, f.long_rsi), 8))

\* faulty variant: the guard's Hold carries the sell strength
GuardHoldSignal_Strength(f) ==
    Signal(HOLD, "uptrend overbought, trend strong, keep holding",
           _calculate_sell_strength(f.short_rsi, f.medium_rsi, f.long_rsi))

GuardHoldSignal(f) == Signal(HOLD, "uptrend overbought, trend strong, keep holding", 0)

StrongSellSignal(f) ==
    LET strength == _calculate_sell_strength(f.short_rsi, f.medium_rsi, f.long_rsi)
    IN  IF f.divergence = "bearish"
        THEN Signal(STRONG_SELL, "bearish divergence, short reversal down",
                    divergence_boost(strength, DIVERGENCE_STRENGTH_MULTIPLIER))
        ELSE Signal(STRONG_SELL, "short reversal down", strength)

SellSignal(f) ==
    LET strength == TimesTenths(_calculate_sell_strength(f.short_rsi, f.medium_rsi, f.long_rsi), 7)
    IN  IF f.divergence = "bearish"
        THEN Signal(SELL, "bearish divergence, short overbought",
                    divergence_boost(strength, DIVERGENCE_SELL_MULTIPLIER))
        ELSE Signal(SELL, "short overbought", strength)

DefaultHoldSignal(f) == Signal(HOLD, "RSI values and trend label", 0)

\* faulty variant: the strong-uptrend guard is tested after the sell rules
Classify_GuardLast(f) ==
    IF StrongBuyRule(f) THEN StrongBuySignal(f)
    ELSE IF BuyRule(f) THEN BuySignal(f)
    ELSE IF StrongSellRule(f) THEN StrongSellSignal(f)
    ELSE IF SellRule(f) THEN SellSignal(f)
    ELSE IF StrongUptrendGuard(f) /\ GuardSellRule(f) THEN GuardSellSignal(f)
    ELSE IF StrongUptrendGuard(f) /\ GuardHoldRule(f) THEN GuardHoldSignal(f)
    ELSE DefaultHoldSignal(f)

\* lines 109-200: first matching rule returns
Classify(f) ==
    IF StrongBuyRule(f) THEN StrongBuySignal(f)
    ELSE IF BuyRule(f) THEN BuySignal(f)
    ELSE IF StrongUptrendGuard(f) /\ GuardSellRule(f) THEN GuardSellSignal(f)
    ELSE IF StrongUptrendGuard(f) /\ GuardHoldRule(f) THEN GuardHoldSignal(f)
    ELSE IF StrongSellRule(f) THEN StrongSellSignal(f)
    ELSE IF SellRule(f) THEN SellSignal(f)
    ELSE DefaultHoldSignal(f)

NoResult == [signal |-> "none", description |-> "none", strength |-> 0]

\* lines 53-67: the exits taken before any feature is computed
early_exit(d) ==
    \* line 53: data.empty on None
    IF d.len = None THEN Raise("AttributeError")
    ELSE IF d.len = 0 \/ d.len < 3 THEN Signal(HOLD, "insufficient data", 0)
    \* line 58: calculate_moving_average raises without a Close column
    ELSE IF ("MA_20" \notin d.cols \/ "MA_50" \notin d.cols) /\ "Close" \notin d.cols
         THEN Raise("ValueError")
    ELSE IF \E i \in 1..3 : get_latest_rsi_values(d)[i] = None
         THEN Signal(HOLD, "RSI unavailable", 0)
    \* line 226: detect_trend reads data['Close'] once 50 rows exist
    ELSE IF d.len >= 50 /\ "Close" \notin d.cols THEN Raise("KeyError")
    ELSE NoResult

generate_signal(d) ==
    IF early_exit(d) # NoResult THEN early_exit(d) ELSE Classify(Features(d))

NoLocals ==
    [ short_rsi |-> None, medium_rsi |-> None, long_rsi |-> None,
      trend |-> "unset", trend_strong |-> FALSE, divergence |-> "unset",
      short_reversal |-> "unset", medium_rising |-> FALSE, medium_falling |-> FALSE,
      sell_threshold |-> None, strong_sell_threshold |-> None,
      buy_threshold |-> None, strong_buy_threshold |-> None ]

----------------------------------------------------------------------------
\* Input frames

\* RSI inputs sit on and next to (at distance Spread) the values the rules
\* compare against, plus the ends of the RSI range
Spread == 1

\* frames of MaxBars rows stand for the frames long enough for trend detection
MaxBars == 50

AllCols == {"Close", "MA_20", "MA_50", "RSI_Short", "RSI_Medium", "RSI_Long"}

InRange(S) == {x \in S : x >= 0 /\ x <= 100}

BuyThresholds ==
    {DEFAULT_BUY_THRESHOLD, DOWNTREND_BUY_THRESHOLD, STRONG_DOWNTREND_BUY_THRESHOLD}
SellThresholds ==
    {DEFAULT_SELL_THRESHOLD, UPTREND_SELL_THRESHOLD, STRONG_UPTREND_SELL_THRESHOLD,
     STRONG_UPTREND_SELL_THRESHOLD + STRONG_UPTREND_SELL_OFFSET}

\* t and the nearest sampled value on the failing side of "x <= t" / "x >= t"
AtMost(T) == T \cup {t + Spread : t \in T}
AtLeast(T) == T \cup {t - Spread : t \in T}

\* the ends of the RSI range (99 and 98 are the highest values that can end an
\* up-down and a falling window) and the values of the two worked examples
\* (short 25 / medium 35 / long 55, and short 90)
ShortVals ==
    InRange({0, 99, 100} \cup AtMost(BuyThresholds) \cup AtLeast(SellThresholds) \cup {90})
MediumVals ==
    InRange({0, 98, 100} \cup AtLeast(BuyThresholds) \cup AtMost({40, 50})
            \cup AtLeast({60} \cup (SellThresholds \ {85})) \cup {35})
LongVals == InRange({0, 100} \cup AtLeast({50} \cup (SellThresholds \ {85})) \cup {30, 55})

\* the compared values alone, for the frames that carry a divergence (97 is
\* the highest value that can end a falling window lying below 100)
ShortThin == {0, 99} \cup BuyThresholds \cup SellThresholds
MediumThin == {0, 97} \cup BuyThresholds \cup {40, 50, 60} \cup (SellThresholds \ {85})
LongThin == {0, 50, 100} \cup (SellThresholds \ {85})

\* the last three values of a column ending in v, as the two steps that lead
\* to v: down-up, up-down, flat
ShortShapes == { <<0 - 1, 1>>, <<1, 0 - 1>>, <<0, 0>> }
\* up-up (rising), down-down (falling), flat
MediumShapes == { <<1, 1>>, <<0 - 1, 0 - 1>>, <<0, 0>> }
\* every order of three values
AllShapes == { <<a, b>> : a \in {0 - 1, 0, 1}, b \in {0 - 1, 0, 1} }

Windows(V, shapes) ==
    { w \in { << v - sh[1] - sh[2], v - sh[2], v >> : v \in V, sh \in shapes } :
        \A i \in 1..3 : w[i] >= 0 /\ w[i] <= 100 }
    \cup { <<NaN, NaN, NaN>> }

\* latest Close, MA_20, MA_50 and the row count
TrendCases ==
    { [len |-> MaxBars, Close |-> 110, MA_20 |-> 104, MA_50 |-> 100],
      [len |-> MaxBars, Close |-> 110, MA_20 |-> 103, MA_50 |-> 100],
      [len |-> MaxBars, Close |-> 100, MA_20 |-> 100, MA_50 |-> 100],
      [len |-> MaxBars, Close |-> 90,  MA_20 |-> 97,  MA_50 |-> 100],
      [len |-> MaxBars, Close |-> 90,  MA_20 |-> 96,  MA_50 |-> 100],
      [len |-> 15, Close |-> 110, MA_20 |-> NaN, MA_50 |-> NaN] }

\* the frames long enough for detect_trend to read the moving averages
LongTrendCases == { tc \in TrendCases : tc.len >= 50 }

\* a bullish divergence needs the second half's RSI low above another RSI value,
\* a bearish one its RSI high below another; neither exists on a window with NaN
DivergenceFits(div, w) ==
    /\ div = "bullish" => \A i \in 1..3 : w[i] > 0
    /\ div = "bearish" => \A i \in 1..3 : IsNum(w[i]) /\ w[i] < 100
    /\ div # "none" => \A i \in 1..3 : IsNum(w[i])

Frame(tc, cols, sw, mw, lv, div) ==
    [ len |-> tc.len, cols |-> cols, Close |-> tc.Close, MA_20 |-> tc.MA_20,
      MA_50 |-> tc.MA_50, RSI_Short |-> sw, RSI_Medium |-> mw, RSI_Long |-> lv,
      div15 |-> div ]

ShortWindows == Windows(ShortVals, ShortShapes)
MediumWindows == Windows(MediumVals, MediumShapes)
LongInputs == LongVals \cup {NaN}
ShortThinWindows == Windows(ShortThin, ShortShapes)
MediumThinWindows == Windows(MediumThin, MediumShapes)
Divergences == {"bullish", "bearish", "none"}

\* frames too short for any rule, and frames lacking columns
ShortFrames ==
    { [ len |-> 0, cols |-> AllCols, Close |-> NaN, MA_20 |-> NaN, MA_50 |-> NaN,
        RSI_Short |-> <<>>, RSI_Medium |-> <<>>, RSI_Long |-> NaN, div15 |-> "none" ] }
    \cup
    { [ len |-> 2, cols |-> AllCols, Close |-> 110, MA_20 |-> NaN, MA_50 |-> NaN,
        RSI_Short |-> <<s + 1, s>>, RSI_Medium |-> <<m + 1, m>>, RSI_Long |-> 50,
        div15 |-> "none" ] : s \in {20, 90}, m \in {30, 80} }

\* None passed where a frame is expected (no rows, no columns, no values)
NoneFrame ==
    [ len |-> None, cols |-> {}, Close |-> None, MA_20 |-> None, MA_50 |-> None,
      RSI_Short |-> <<>>, RSI_Medium |-> <<>>, RSI_Long |-> None, div15 |-> "none" ]

ColumnCases ==
    { AllCols \ {c} : c \in AllCols } \cup { AllCols \ {"MA_20", "MA_50", "Close"} }

SparseFrames ==
    { Frame(tc, cols, sw, mw, 80, "none") :
        tc \in TrendCases, cols \in ColumnCases,
        sw \in { <<21, 20, 25>>, <<89, 90, 86>> },
        mw \in { <<33, 34, 35>>, <<90, 85, 80>> } }

\* every shape of both windows (and a NaN before a defined latest value), on
\* a thinner set of values
ShapeWindows(V) == Windows(V, AllShapes) \cup { <<NaN, v, v>> : v \in V }

ShapeFrames ==
    { Frame(tc, AllCols, sw, mw, lv, "none") :
        tc \in TrendCases, sw \in ShapeWindows({25, 30, 70, 85, 90}),
        mw \in ShapeWindows({35, 40, 60, 80}), lv \in {50, 80} }

----------------------------------------------------------------------------
\* The classifier as a state machine: a frame is handed to generate_signal,
\* which returns its (signal, description, strength)

Init ==
    /\ \/ \E tc \in LongTrendCases, sw \in ShortWindows, mw \in MediumWindows,
             lv \in LongInputs :
               data = Frame(tc, AllCols, sw, mw, lv, "none")
       \/ \E tc \in TrendCases, sw \in ShortThinWindows, mw \in MediumThinWindows,
             lv \in LongThin, div \in Divergences :
               /\ DivergenceFits(div, mw)
               /\ data = Frame(tc, AllCols, sw, mw, lv, div)
       \/ data \in ShortFrames \cup SparseFrames \cup ShapeFrames \cup {NoneFrame}
    /\ pc = "call"
    /\ locals = NoLocals
    /\ result = NoResult
    /\ heap = <<>>
    /\ config = DefaultConfig /\ futures = <<>>

GenerateSignal ==
    /\ pc = "call"
    /\ locals' = IF early_exit(data) # NoResult THEN NoLocals ELSE Features(data)
    /\ result' = generate_signal(data)
    /\ pc' = "done"
    /\ UNCHANGED <<data, heap, config, futures>>

Next == GenerateSignal

Spec == Init /\ [][Next]_vars

----------------------------------------------------------------------------
\* The calculator's detectors called on their own: each call leaves in
\* result the operation, its arguments and the value it returned

Returned(op, args, value) == [op |-> op, args |-> args, value |-> value]

\* Trend detection (detect_trend, is_trend_strong, and lines 67-68 of
\* generate_signal, which pass the one's result to the other).  Prices sit on
\* and around the 5% and 3% margins: MA_20 = 120 with Close 126 is exactly
\* 5% above, MA_20 = 80 with Close 76 exactly 5% below, MA_20 = 103 / 97 with
\* MA_50 = 100 exactly 3% apart.
TrendCloses == {75, 76, 90, 95, 96, 97, 100, 103, 104, 105, 106, 109, 110, 126, 127}
TrendMA20s == {80, 96, 97, 100, 103, 104, 120, NaN}
TrendMA50s == {100, NaN}
TrendLens == {3, 49, 50, MaxBars + 1}
TrendLabels == {"uptrend", "downtrend", "neutral"}

TrendFrames ==
    { Frame([len |-> n, Close |-> c, MA_20 |-> a, MA_50 |-> b], cols,
            <<89, 90, 86>>, <<33, 34, 35>>, 80, "none") :
        n \in TrendLens, c \in TrendCloses, a \in TrendMA20s, b \in TrendMA50s,
        cols \in {AllCols, AllCols \ {"MA_20", "MA_50"}} }

InitTrend ==
    /\ data \in TrendFrames
    /\ pc = "call" /\ locals = NoLocals /\ result = NoResult
    /\ heap = <<>> /\ config = DefaultConfig /\ futures = <<>>

DetectTrend ==
    /\ pc = "call"
    /\ result' = Returned("detect_trend", <<>>, detect_trend(data))
    /\ pc' = "returned"
    /\ UNCHANGED <<data, locals, heap, config, futures>>

IsTrendStrong ==
    /\ pc = "call"
    /\ \E trend \in TrendLabels :
          result' = Returned("is_trend_strong", <<trend>>, is_trend_strong(data, trend))
    /\ pc' = "returned"
    /\ UNCHANGED <<data, locals, heap, config, futures>>

NextTrend == DetectTrend \/ IsTrendStrong \/ GenerateSignal

SpecTrend == InitTrend /\ [][NextTrend]_vars

\* Reversal detection (detect_rsi_reversal) with any lookback, on frames whose
\* RSI_Short holds the whole column: len = Len(RSI_Short)
MaxLookback == 3
ReversalVals == {NaN, 30, 35, 40, 50}

RECURSIVE SeqsUpTo(_, _)
SeqsUpTo(V, n) ==
    IF n = 0 THEN { <<>> }
    ELSE SeqsUpTo(V, n - 1)
         \cup { Append(w, v) : w \in { u \in SeqsUpTo(V, n - 1) : Len(u) = n - 1 }, v \in V }

ReversalColumns == SeqsUpTo(ReversalVals, MaxLookback + 1)

ReversalFrames ==
    { Frame([len |-> Len(w), Close |-> 100, MA_20 |-> NaN, MA_50 |-> NaN], cols,
            w, w, IF w = <<>> THEN NaN ELSE w[Len(w)], "none") :
        w \in ReversalColumns, cols \in {AllCols, AllCols \ {"RSI_Short"}} }

InitReversal ==
    /\ data \in ReversalFrames
    /\ pc = "call" /\ locals = NoLocals /\ result = NoResult
    /\ heap = <<>> /\ config = DefaultConfig /\ futures = <<>>

DetectRsiReversal ==
    /\ pc = "call"
    /\ \E lookback \in 1..MaxLookback :
          result' = Returned("detect_rsi_reversal", <<"RSI_Short", lookback>>,
                             detect_rsi_reversal(data, "RSI_Short", lookback))
    /\ pc' = "returned"
    /\ UNCHANGED <<data, locals, heap, config, futures>>

NextReversal == DetectRsiReversal

SpecReversal == InitReversal /\ [][NextReversal]_vars

\* Divergence detection (detect_rsi_divergence with lookback 14, as line 71 of
\* generate_signal calls it).  A 15-row window is laid out from five values:
\* rows 1-3, 4-7, 8-10, 11-14 and 15, so that the first row, the last row and
\* both sides of the split between row 7 and row 8 vary independently.
Window15(a, b, c, d, e) == <<a, a, a, b, b, b, b, c, c, c, d, d, d, d, e>>

DivergencePrices == {1, 2, 3}
DivergenceRsis == {40, 50, 60}

PriceWindows ==
    { Window15(a, b, c, d, e) : a \in DivergencePrices, b \in DivergencePrices,
        c \in DivergencePrices, d \in DivergencePrices, e \in DivergencePrices }

RsiWindows ==
    { Window15(a, b, c, d, e) : a \in DivergenceRsis, b \in DivergenceRsis,
        c \in DivergenceRsis, d \in DivergenceRsis, e \in DivergenceRsis }

\* a frame of n rows whose last rows of Close and RSI_Medium are p and r
DivergenceFrame(n, cols, p, r) ==
    [ len |-> n, cols |-> cols, Close |-> p[Len(p)], MA_20 |-> NaN, MA_50 |-> NaN,
      RSI_Short |-> SubSeq(r, Len(r) - 2, Len(r)),
      RSI_Medium |-> SubSeq(r, Len(r) - 2, Len(r)), RSI_Long |-> r[Len(r)],
      div15 |-> IF Len(p) = 15 THEN divergence_on_window(p, r, 14) ELSE "none",
      Close15 |-> p, RSI15 |-> r ]

DivergenceFrames ==
    { DivergenceFrame(n, AllCols, p, r) : n \in {15, MaxBars}, p \in PriceWindows, r \in RsiWindows }
    \cup
    \* a NaN in either column, fewer than 15 rows, a column absent
    { DivergenceFrame(15, AllCols, [p EXCEPT ![i] = NaN], r) :
        i \in {1, 7, 15}, p \in {Window15(3, 3, 2, 2, 1)}, r \in {Window15(40, 40, 50, 50, 60)} }
    \cup
    { DivergenceFrame(15, AllCols, p, [r EXCEPT ![i] = NaN]) :
        i \in {1, 8, 15}, p \in {Window15(1, 1, 2, 2, 3)}, r \in {Window15(60, 60, 50, 50, 40)} }
    \cup
    { DivergenceFrame(14, cols, SubSeq(p, 2, 15), SubSeq(r, 2, 15)) :
        cols \in {AllCols},
        p \in {Window15(3, 3, 2, 2, 1), Window15(1, 1, 2, 2, 3)},
        r \in {Window15(40, 40, 50, 50, 60), Window15(60, 60, 50, 50, 40)} }
    \cup
    { DivergenceFrame(15, AllCols \ {c}, p, r) :
        c \in {"RSI_Medium", "Close"},
        p \in {Window15(3, 3, 2, 2, 1), Window15(1, 1, 2, 2, 3)},
        r \in {Window15(40, 40, 50, 50, 60), Window15(60, 60, 50, 50, 40)} }

InitDivergence ==
    /\ data \in DivergenceFrames
    /\ pc = "call" /\ locals = NoLocals /\ result = NoResult
    /\ heap = <<>> /\ config = DefaultConfig /\ futures = <<>>

DetectRsiDivergence ==
    /\ pc = "call"
    /\ result' = Returned("detect_rsi_divergence", <<"RSI_Medium", 14>>,
                          detect_rsi_divergence(data, "RSI_Medium", 14))
    /\ pc' = "returned"
    /\ UNCHANGED <<data, locals, heap, config, futures>>

NextDivergence == DetectRsiDivergence

SpecDivergence == InitDivergence /\ [][NextDivergence]_vars

\* RSI calculation (calculate_rsi) on price frames: every Close column of up
\* to MaxRows positive prices, with or without the Close column present,
\* for the periods 2..MaxPeriod
MaxRows == 5
MaxPeriod == 3
ClosePrices == {1, 2, 3}

PriceFrames ==
    { [len |-> Len(c), cols |-> cols, Closes |-> c] :
        c \in SeqsUpTo(ClosePrices, MaxRows),
        cols \in { {"Close"}, {} } }

InitRsi ==
    /\ data \in PriceFrames
    /\ pc = "call" /\ locals = NoLocals /\ result = NoResult
    /\ heap = <<>> /\ config = DefaultConfig /\ futures = <<>>

CalculateRsi ==
    /\ pc = "call"
    /\ \E period \in 2..MaxPeriod :
          result' = Returned("calculate_rsi", <<period>>, calculate_rsi(data, period))
    /\ pc' = "returned"
    /\ UNCHANGED <<data, locals, heap, config, futures>>

NextRsi == CalculateRsi

SpecRsi == InitRsi /\ [][NextRsi]_vars

\* The batch summary (get_all_signals) over a symbol -> frame mapping.  On
\* the frames of the classifier the RSI fields stand for what calculate_rsi
\* yields for the three periods, so calculate_all_rsi returns a copy with
\* the three RSI columns present.
RsiColumns == {"RSI_Short", "RSI_Medium", "RSI_Long"}

calculate_all_rsi(d) ==
    IF "Close" \notin d.cols THEN Raise("ValueError")
    ELSE [d EXCEPT !.cols = @ \cup RsiColumns]

\* truth value of a float or None: None and 0.0 are false, NaN is true
truthy(x) == x # None /\ x # 0

\* f"{x:.1f}" of an integral value or NaN
format_1f(x) == IF IsNaN(x) THEN "nan" ELSE ToString(x) \o ".0"

\* f"{rsi:.1f}" if rsi else "N/A"
rsi_cell(x) == IF truthy(x) THEN format_1f(x) ELSE "N/A"

\* f"{strength:.1f}" of a strength held in units of 1/Scale
strength_cell(strength) ==
    LET tenths == (strength * 10 + Scale \div 2) \div Scale
    IN  ToString(tenths \div 10) \o "." \o ToString(tenths % 10)

\* lines 275-291: the row appended for one symbol
summary_row(symbol, d) ==
    LET data_with_rsi == calculate_all_rsi(d)
        sig == generate_signal(data_with_rsi)
        latest == get_latest_rsi_values(data_with_rsi)
    IN  [ symbol |-> symbol, signal |-> sig.signal,
          short_rsi |-> rsi_cell(latest[1]), medium_rsi |-> rsi_cell(latest[2]),
          long_rsi |-> rsi_cell(latest[3]),
          strength |-> strength_cell(sig.strength), description |-> sig.description ]

\* line 274: data is not None and not data.empty
has_rows(d) == d # NoneFrame /\ d.len # 0

RECURSIVE summary_rows(_, _)
summary_rows(symbols, all_data) ==
    IF symbols = <<>> THEN <<>>
    ELSE (IF has_rows(all_data[Head(symbols)])
          THEN << summary_row(Head(symbols), all_data[Head(symbols)]) >>
          ELSE <<>>)
         \o summary_rows(Tail(symbols), all_data)

get_all_signals(symbols, all_data) ==
    IF \E i \in 1..Len(symbols) :
          has_rows(all_data[symbols[i]]) /\ "Close" \notin all_data[symbols[i]].cols
    THEN Raise("ValueError")
    ELSE summary_rows(symbols, all_data)

\* the mapping's symbols in iteration order, and the frames fetched for
\* them: None, empty, or price frames (Close only) whose three RSI columns
\* come out undefined (flat prices), 0 (prices that only fell), 100, or in between
Symbols == <<"A", "B">>

BatchFrames ==
    { NoneFrame }
    \cup { f \in ShortFrames : f.len = 0 }
    \cup { Frame(tc, {"Close"}, <<v[1], v[1], v[1]>>, <<v[2], v[2], v[2]>>, v[3], "none") :
             tc \in { t \in TrendCases : t.MA_20 \in {104, NaN} },
             v \in { <<NaN, NaN, NaN>>, <<0, 0, 0>>, <<100, 100, 100>>,
                      <<25, 35, 55>>, <<0, 5, 12>>, <<90, 80, 75>> } }

InitBatch ==
    /\ data \in [ {Symbols[i] : i \in 1..Len(Symbols)} -> BatchFrames ]
    /\ pc = "call" /\ locals = NoLocals /\ result = NoResult
    /\ heap = <<>> /\ config = DefaultConfig /\ futures = <<>>

GetAllSignals ==
    /\ pc = "call"
    /\ result' = Returned("get_all_signals", <<>>, get_all_signals(Symbols, data))
    /\ pc' = "returned"
    /\ UNCHANGED <<data, locals, heap, config, futures>>

NextBatch == GetAllSignals

SpecBatch == InitBatch /\ [][NextBatch]_vars

\* The stages called one after another on frame objects.  A frame is a
\* mutable object passed by reference: heap is the sequence of the live
\* objects, a reference is an index into it, and data keeps every object
\* as it was when the caller supplied it or got it back from a stage.
\* Objects a call creates and does not return are dropped when it returns.
MaxObjects == 3

\* faulty variant: no copy is made, the result is the argument itself
df_copy_Alias(h, ref) == [heap |-> h, ref |-> ref]

\* data.copy(): a new object with the same columns and values
df_copy(h, ref) == [heap |-> Append(h, h[ref]), ref |-> Len(h) + 1]

\* result[col] = series: the column is stored on the object referred to
df_setitem(h, ref, col) == [h EXCEPT ![ref].cols = @ \cup {col}]

\* the objects that existed before a call, as the call left them
kept(before, after) == SubSeq(after, 1, Len(before))

\* calculate_all_rsi on an object: ref 0 stands for the ValueError of line 41
calculate_all_rsi_on(h, ref) ==
    LET c == df_copy(h, ref)
    IN  IF "Close" \notin h[ref].cols THEN [heap |-> c.heap, ref |-> 0]
        ELSE [ heap |-> df_setitem(df_setitem(df_setitem(c.heap, c.ref, "RSI_Short"),
                                              c.ref, "RSI_Medium"), c.ref, "RSI_Long"),
               ref |-> c.ref ]

\* calculate_multiple_moving_averages on an object: ref 0 stands for the
\* ValueError of line 189
calculate_multiple_moving_averages_on(h, ref) ==
    LET c == df_copy(h, ref)
    IN  IF "Close" \notin h[ref].cols THEN [heap |-> c.heap, ref |-> 0]
        ELSE [ heap |-> df_setitem(df_setitem(c.heap, c.ref, "MA_20"), c.ref, "MA_50"),
               ref |-> c.ref ]

\* data = self.calculate_multiple_moving_averages(data) when a moving average
\* column is missing (signal_generator.py 57-58 after the 3-row test,
\* rsi_calculator.py 226-228 and 257-258 after the 50-row test): the local
\* name is rebound to the new object
rebound(h, ref, min_rows) ==
    IF h[ref].len >= min_rows /\ ("MA_20" \notin h[ref].cols \/ "MA_50" \notin h[ref].cols)
    THEN calculate_multiple_moving_averages_on(h, ref)
    ELSE [heap |-> h, ref |-> ref]

\* get_all_signals over the objects refs, in order: each object with rows is
\* copied by calculate_all_rsi and the copy classified by generate_signal
RECURSIVE batch_heap(_, _)
batch_heap(h, refs) ==
    IF refs = <<>> THEN h
    ELSE IF ~has_rows(h[Head(refs)]) THEN batch_heap(h, Tail(refs))
    ELSE LET with_rsi == calculate_all_rsi_on(h, Head(refs))
         IN  IF with_rsi.ref = 0 THEN with_rsi.heap
             ELSE batch_heap(rebound(with_rsi.heap, with_rsi.ref, 3).heap, Tail(refs))

\* the caller's frames: price frames (Close only), frames that already carry
\* RSI or all columns, a frame without Close, short and empty frames
StageFrames ==
    { Frame(tc, cols, <<89, 90, 86>>, <<33, 34, 35>>, 80, "none") :
        tc \in TrendCases,
        cols \in { {"Close"}, {"Close"} \cup RsiColumns, AllCols, RsiColumns } }
    \cup { f \in ShortFrames : f.RSI_Short \in {<<>>, <<21, 20>>} /\ f.RSI_Medium \in {<<>>, <<31, 30>>} }

InitStages ==
    /\ \E f \in StageFrames : heap = <<f>> /\ data = <<f>>
    /\ pc = "call" /\ locals = NoLocals /\ result = NoResult
    /\ config = DefaultConfig /\ futures = <<>>

Callable == pc \in {"call", "returned"}

\* a stage that returns a frame: the returned object joins the caller's frames
ReturnFrame(op, ref, r) ==
    /\ heap' = IF r.ref = 0 THEN kept(heap, r.heap) ELSE r.heap
    /\ data' = IF r.ref > Len(data) THEN Append(data, r.heap[r.ref]) ELSE data
    /\ result' = Returned(op, <<ref>>, IF r.ref = 0 THEN Raise("ValueError") ELSE r.ref)
    /\ pc' = "returned"
    /\ UNCHANGED <<locals, config, futures>>

\* a stage that returns a value
ReturnValue(op, args, after, value) ==
    /\ heap' = kept(heap, after)
    /\ result' = Returned(op, args, value)
    /\ pc' = "returned"
    /\ UNCHANGED <<data, locals, config, futures>>

CallCalculateAllRsi ==
    /\ Callable /\ Len(heap) < MaxObjects
    /\ \E ref \in 1..Len(heap) :
          ReturnFrame("calculate_all_rsi", ref, calculate_all_rsi_on(heap, ref))

CallCalculateMovingAverages ==
    /\ Callable /\ Len(heap) < MaxObjects
    /\ \E ref \in 1..Len(heap) :
          ReturnFrame("calculate_multiple_moving_averages", ref,
                      calculate_multiple_moving_averages_on(heap, ref))

CallDetectTrend ==
    /\ Callable
    /\ \E ref \in 1..Len(heap) :
          ReturnValue("detect_trend", <<ref>>, rebound(heap, ref, 50).heap,
                      IF heap[ref].len >= 50 /\ "Close" \notin heap[ref].cols
                      THEN Raise("ValueError") ELSE detect_trend(heap[ref]))

CallIsTrendStrong ==
    /\ Callable
    /\ \E ref \in 1..Len(heap), trend \in TrendLabels :
          ReturnValue("is_trend_strong", <<ref, trend>>, rebound(heap, ref, 50).heap,
                      IF heap[ref].len >= 50 /\ "Close" \notin heap[ref].cols
                      THEN Raise("ValueError") ELSE is_trend_strong(heap[ref], trend))

\* the pattern detectors only read: data[rsi_column].iloc[...] and
\* data.iloc[...] build new arrays
CallPatternDetector ==
    /\ Callable
    /\ \E ref \in 1..Len(heap) :
          \/ ReturnValue("detect_rsi_reversal", <<ref>>, heap,
                         detect_rsi_reversal(heap[ref], "RSI_Short", 2))
          \/ ReturnValue("is_rsi_rising", <<ref>>, heap,
                         is_rsi_rising(heap[ref], "RSI_Medium", 2))
          \/ ReturnValue("is_rsi_falling", <<ref>>, heap,
                         is_rsi_falling(heap[ref], "RSI_Medium", 2))
          \/ ReturnValue("detect_rsi_divergence", <<ref>>, heap,
                         detect_rsi_divergence(heap[ref], "RSI_Medium", 14))

CallGenerateSignal ==
    /\ Callable
    /\ \E ref \in 1..Len(heap) :
          ReturnValue("generate_signal", <<ref>>, rebound(heap, ref, 3).heap,
                      generate_signal(heap[ref]))

CallGetAllSignals ==
    /\ Callable
    /\ \E a \in 1..Len(heap), b \in 1..Len(heap) :
          ReturnValue("get_all_signals", <<a, b>>, batch_heap(heap, <<a, b>>),
                      get_all_signals(Symbols, [s \in {"A", "B"} |->
                                                 IF s = "A" THEN heap[a] ELSE heap[b]]))

NextStages ==
    \/ CallCalculateAllRsi
    \/ CallCalculateMovingAverages
    \/ CallDetectTrend
    \/ CallIsTrendStrong
    \/ CallPatternDetector
    \/ CallGenerateSignal
    \/ CallGetAllSignals

SpecStages == InitStages /\ [][NextStages]_vars

\* The parallel fetch (DataFetcher.get_all_stocks_data).  The main thread
\* submits one get_stock_data call per symbol of STOCKS to a pool of
\* MAX_WORKERS threads, takes the futures as they complete, stores each
\* non-None result under the future's symbol, and leaves the with-block
\* (executor shutdown, which waits for the workers) before it returns.
\* A future is "unsubmitted", "pending" (queued), "running" or "finished".
\* What Yahoo answers is decided when a fetch finishes.
MAX_WORKERS == 5
STOCKS == <<"TSLA", "NVDA", "069500.KS", "SOXL", "TQQQ">>
StockSymbols == { STOCKS[i] : i \in 1..Len(STOCKS) }

\* what ticker.history can do: return rows, return an empty frame, raise
Responses == {"rows", "empty", "error"}

\* the frame of lines 48-51 for a symbol
StockFrame(symbol) ==
    [ticker |-> symbol, cols |-> {"Open", "High", "Low", "Close", "Volume"}]

\* get_stock_data: None on an empty frame and on any exception
get_stock_data(symbol, response) ==
    IF response = "error" THEN NoneFrame
    ELSE IF response = "empty" THEN NoneFrame
    ELSE StockFrame(symbol)

\* faulty variant: the result is stored without the None test
store_result_Unchecked(all_data, symbol, df) == (symbol :> df) @@ all_data

\* lines 133-135: if df is not None: all_data[symbol] = df
store_result(all_data, symbol, df) ==
    IF df # NoneFrame THEN (symbol :> df) @@ all_data ELSE all_data

Future(state, value, yielded) == [state |-> state, value |-> value, yielded |-> yielded]

\* the main thread's locals: all_data and the number of fetches submitted
FetchLocals(all_data, submitted) == [all_data |-> all_data, submitted |-> submitted]

InitFetch ==
    /\ data = STOCKS
    /\ pc = "submit"
    /\ locals = FetchLocals(<<>>, 0)
    /\ futures = [s \in StockSymbols |-> Future("unsubmitted", NoneFrame, FALSE)]
    /\ result = NoResult
    /\ heap = <<>> /\ config = DefaultConfig

\* lines 126-128: executor.submit for the next symbol of STOCKS
Submit ==
    /\ pc = "submit"
    /\ LET symbol == data[locals.submitted + 1]
       IN  /\ futures' = [futures EXCEPT ![symbol].state = "pending"]
           /\ locals' = [locals EXCEPT !.submitted = @ + 1]
           /\ pc' = IF locals.submitted + 1 = Len(data) THEN "collect" ELSE "submit"
    /\ UNCHANGED <<data, result, heap, config>>

\* a pool thread takes a queued fetch; at most MAX_WORKERS run at a time
StartFetch ==
    /\ Cardinality({s \in StockSymbols : futures[s].state = "running"}) < MAX_WORKERS
    /\ \E symbol \in StockSymbols :
          /\ futures[symbol].state = "pending"
          /\ futures' = [futures EXCEPT ![symbol].state = "running"]
    /\ UNCHANGED <<data, pc, locals, result, heap, config>>

\* get_stock_data returns in its worker and the future is set
FinishFetch ==
    /\ \E symbol \in StockSymbols, response \in Responses :
          /\ futures[symbol].state = "running"
          /\ futures' = [futures EXCEPT ![symbol] =
                            Future("finished", get_stock_data(symbol, response), FALSE)]
    /\ UNCHANGED <<data, pc, locals, result, heap, config>>

\* lines 130-137: as_completed yields a finished future not yet yielded; the
\* loop body looks up its symbol and stores its result
Collect ==
    /\ pc = "collect"
    /\ \E symbol \in StockSymbols :
          /\ futures[symbol].state = "finished" /\ ~futures[symbol].yielded
          /\ futures' = [futures EXCEPT ![symbol].yielded = TRUE]
          /\ locals' = [locals EXCEPT
                          !.all_data = store_result(@, symbol, futures[symbol].value)]
    /\ UNCHANGED <<data, pc, result, heap, config>>

\* as_completed is exhausted once every future was yielded; the with-block
\* exits through shutdown(wait=True), and line 139 returns all_data
ReturnAllData ==
    /\ pc = "collect"
    /\ \A s \in StockSymbols : futures[s].yielded
    /\ \A s \in StockSymbols : futures[s].state \in {"unsubmitted", "finished"}
    /\ result' = Returned("get_all_stocks_data", <<>>, locals.all_data)
    /\ pc' = "returned"
    /\ UNCHANGED <<data, locals, heap, config, futures>>

NextFetch == Submit \/ StartFetch \/ FinishFetch \/ Collect \/ ReturnAllData

SpecFetch == InitFetch /\ [][NextFetch]_vars

----------------------------------------------------------------------------
\* Properties of generate_signal, stated on the frame it was called with and
\* the result it returned

Done == pc = "done"

\* the call reached the rules: at least 3 rows, all three latest RSI values
\* defined, and no missing Close column made it raise
Classified ==
    /\ Done
    /\ locals # NoLocals
    /\ IsNum(locals.short_rsi) /\ IsNum(locals.medium_rsi) /\ IsNum(locals.long_rsi)

Short == locals.short_rsi
Medium == locals.medium_rsi
Long == locals.long_rsi
Trend == locals.trend
TrendStrong == locals.trend_strong
StrongUptrend == Trend = "uptrend" /\ TrendStrong
StrongDowntrend == Trend = "downtrend" /\ TrendStrong
Reversal == locals.short_reversal
MediumRising == locals.medium_rising
MediumFalling == locals.medium_falling
Divergence == locals.divergence
SellThr == locals.sell_threshold
StrongSellThr == locals.strong_sell_threshold
BuyThr == locals.buy_threshold
StrongBuyThr == locals.strong_buy_threshold

\* the documented strength formulas, in units of 1/1200:
\* max(0,(30-short)/30*50) + max(0,(40-medium)/40*30) + (long>=30 ? min(20,(long-30)/20*20) : 0)
BuyStrength ==
    Min(120000, Max(0, (30 - Short) * 2000) + Max(0, (40 - Medium) * 900)
                + (IF Long >= 30 THEN Min(24000, (Long - 30) * 1200) ELSE 0))
\* max(0,(short-70)/30*50) + max(0,(medium-60)/40*30) + max(0,(long-70)/30*20)
SellStrength ==
    Min(120000, Max(0, (Short - 70) * 2000) + Max(0, (Medium - 60) * 900)
                + Max(0, (Long - 70) * 800))
\* x * (n/10), and the same capped at 100
Tenths(x, n) == (x * n) \div 10
Capped(x) == Min(120000, x)

\* the conditions of the rules as documented
StrongBuyMatches ==
    /\ Short <= StrongBuyThr /\ Reversal = "up"
    /\ StrongBuyThr <= Medium /\ Medium <= 50 /\ MediumRising
    /\ Long >= 50
BuyMatches == Short <= BuyThr /\ Medium <= 40
GuardReturns == StrongUptrend /\ ((Short >= 85 /\ Reversal = "down") \/ Short >= SellThr)
StrongSellMatches ==
    /\ Short >= StrongSellThr /\ Reversal = "down"
    /\ Medium >= SellThr /\ MediumFalling
    /\ Long >= SellThr
SellMatches == Short >= SellThr /\ Medium >= 60

\* C1: strong-uptrend sell guard. With neither buy rule matching, in a strong
\* uptrend: Sell with strength sellStrength x 0.8 is returned if and only if
\* short RSI >= 85 and the short reversal is 'down'; otherwise short RSI >= 80
\* gives Hold with strength 0.
C1_StrongUptrendGuard ==
    (Classified /\ ~StrongBuyMatches /\ ~BuyMatches /\ StrongUptrend) =>
        /\ (Short >= 85 /\ Reversal = "down") =>
              (result.signal = SELL /\ result.strength = Tenths(SellStrength, 8))
        /\ result.signal = SELL => (Short >= 85 /\ Reversal = "down")
        /\ (~(Short >= 85 /\ Reversal = "down") /\ Short >= 80) =>
              (result.signal = HOLD /\ result.strength = 0)
        /\ result.signal # STRONG_SELL

\* strong uptrend, short RSI 90, no 'down' reversal: Hold was returned
C1_Witness ==
    /\ Classified /\ StrongUptrend /\ Short = 90 /\ Reversal # "down"
    /\ Medium >= 60 /\ result.signal = HOLD

\* C2: StrongBuy is returned exactly when short <= strong_buy_threshold, short
\* reversal 'up', strong_buy_threshold <= medium <= 50, medium rising and
\* long >= 50; its strength is buyStrength, x 1.2 capped at 100 on a bullish
\* divergence.
C2_StrongBuyRule ==
    Classified =>
        /\ result.signal = STRONG_BUY <=> StrongBuyMatches
        /\ result.signal = STRONG_BUY =>
              result.strength = IF Divergence = "bullish"
                                THEN Capped(Tenths(BuyStrength, 12))
                                ELSE BuyStrength

C2_Witness ==
    /\ Classified /\ result.signal = STRONG_BUY /\ Divergence = "bullish"
    /\ result.strength > BuyStrength

\* C3: when the StrongBuy rule does not match, Buy is returned exactly when
\* short <= buy_threshold and medium <= 40; its strength is buyStrength x 0.7,
\* x 1.3 capped at 100 on a bullish divergence.
C3_BuyRule ==
    (Classified /\ ~StrongBuyMatches) =>
        /\ result.signal = BUY <=> BuyMatches
        /\ result.signal = BUY =>
              result.strength = IF Divergence = "bullish"
                                THEN Capped(Tenths(Tenths(BuyStrength, 7), 13))
                                ELSE Tenths(BuyStrength, 7)

C3_Witness ==
    /\ Classified /\ ~StrongBuyMatches /\ result.signal = BUY
    /\ Divergence = "bullish" /\ result.strength > 0

\* C4: when rules 1-3 did not return, StrongSell is returned exactly when
\* short >= strong_sell_threshold, short reversal 'down', medium >=
\* sell_threshold and falling, long >= sell_threshold; its strength is
\* sellStrength, x 1.2 capped at 100 on a bearish divergence.
C4_StrongSellRule ==
    (Classified /\ ~StrongBuyMatches /\ ~BuyMatches /\ ~GuardReturns) =>
        /\ result.signal = STRONG_SELL <=> StrongSellMatches
        /\ result.signal = STRONG_SELL =>
              result.strength = IF Divergence = "bearish"
                                THEN Capped(Tenths(SellStrength, 12))
                                ELSE SellStrength

C4_Witness ==
    /\ Classified /\ result.signal = STRONG_SELL /\ Divergence = "bearish"
    /\ Trend = "uptrend" /\ result.strength > SellStrength

\* C5: when rules 1-4 did not return, Sell is returned exactly when short >=
\* sell_threshold and medium >= 60, with strength sellStrength x 0.7, x 1.3
\* capped at 100 on a bearish divergence; otherwise Hold is returned.
C5_SellRule ==
    (Classified /\ ~StrongBuyMatches /\ ~BuyMatches /\ ~GuardReturns /\ ~StrongSellMatches) =>
        /\ result.signal = SELL <=> SellMatches
        /\ result.signal = SELL =>
              result.strength = IF Divergence = "bearish"
                                THEN Capped(Tenths(Tenths(SellStrength, 7), 13))
                                ELSE Tenths(SellStrength, 7)
        /\ ~SellMatches => result.signal = HOLD

C5_Witness ==
    /\ Classified /\ ~GuardReturns /\ ~StrongSellMatches /\ result.signal = SELL
    /\ Divergence = "bearish" /\ Reversal = "down" /\ result.strength > 0

\* the call computed its thresholds (lines 82-107)
ReachedRules == Done /\ locals # NoLocals

\* C6 as claimed: buy_threshold 27 and strong_buy_threshold 25 in a strong
\* downtrend, both 27 in a downtrend that is not strong, both 30 otherwise.
C6_BuyThresholdsClaimed ==
    ReachedRules =>
        /\ StrongDowntrend => (BuyThr = 27 /\ StrongBuyThr = 25)
        /\ (Trend = "downtrend" /\ ~TrendStrong) => (BuyThr = 27 /\ StrongBuyThr = 27)
        /\ Trend # "downtrend" => (BuyThr = 30 /\ StrongBuyThr = 30)

\* C6 (amended): in a strong downtrend buy_threshold and strong_buy_threshold
\* are both 25; in a downtrend that is not strong both are 27; in every other
\* trend context both are 30.
C6_BuyThresholds ==
    ReachedRules =>
        /\ StrongDowntrend => (BuyThr = 25 /\ StrongBuyThr = 25)
        /\ (Trend = "downtrend" /\ ~TrendStrong) => (BuyThr = 27 /\ StrongBuyThr = 27)
        /\ Trend # "downtrend" => (BuyThr = 30 /\ StrongBuyThr = 30)

\* strong downtrend, short RSI 27, medium RSI <= 40: no Buy, since 27 > 25
C6_Witness ==
    /\ Classified /\ StrongDowntrend /\ Short = 27 /\ Medium <= 40
    /\ result.signal = HOLD

\* C7: sell_threshold 80 and strong_sell_threshold 85 in a strong uptrend, 75
\* and 80 in an uptrend that is not strong, both 70 in every other context.
C7_SellThresholds ==
    ReachedRules =>
        /\ StrongUptrend => (SellThr = 80 /\ StrongSellThr = 85)
        /\ (Trend = "uptrend" /\ ~TrendStrong) => (SellThr = 75 /\ StrongSellThr = 80)
        /\ Trend # "uptrend" => (SellThr = 70 /\ StrongSellThr = 70)

\* the thresholds at work: short RSI 79 with medium RSI >= 60 is a Sell in a
\* plain uptrend
C7_Witness ==
    /\ Classified /\ Trend = "uptrend" /\ ~TrendStrong /\ Short = 79 /\ Medium >= 60
    /\ Reversal = "down" /\ result.signal = SELL

\* C8: every returned strength lies in [0,100].
C8_StrengthInRange ==
    (Done /\ result.signal # "raise") =>
        (result.strength >= 0 /\ result.strength <= 100 * Scale)

\* a StrongSell whose strength x 1.2 exceeds 100 and was capped
C8_Witness ==
    /\ Classified /\ result.signal = STRONG_SELL /\ Divergence = "bearish"
    /\ Tenths(SellStrength, 12) > 100 * Scale /\ result.strength = 100 * Scale

\* C9: a returned Hold has strength exactly 0, through every exit.
C9_HoldStrengthZero ==
    (Done /\ result.signal = HOLD) => result.strength = 0

\* the guard's Hold, on a frame whose sell strength is positive
C9_Witness ==
    /\ Classified /\ StrongUptrend /\ Short >= 85 /\ SellStrength > 0
    /\ result = Signal(HOLD, "uptrend overbought, trend strong, keep holding", 0)

\* C10: a returned StrongBuy has strength strictly greater than 0.
C10_StrongBuyPositive ==
    (Done /\ result.signal = STRONG_BUY) => result.strength > 0

\* the worked example: short 25 with 'up' reversal, medium 35 rising, long 55,
\* neutral trend
C10_Witness ==
    /\ Classified /\ Short = 25 /\ Reversal = "up" /\ Medium = 35 /\ MediumRising
    /\ Long = 55 /\ Trend = "neutral"
    /\ result.signal = STRONG_BUY /\ result.strength > 0

\* some latest RSI value is None (column absent) or NaN
LatestUndefined ==
    \E i \in 1..3 : ~IsNum(get_latest_rsi_values(data)[i])

\* C11: with fewer than 3 rows, or with any of the three latest RSI values
\* undefined (column absent, or NaN on the latest row), generate_signal
\* returns Hold with strength 0 and an insufficient-data / RSI-unavailable
\* description.  Stated for frames that carry a Close column, so that no
\* missing-column error is involved.  The code tests the latest values
\* against None only (line 63): a NaN goes on to the rules.
C11_InsufficientDataHold ==
    (Done /\ data # NoneFrame /\ "Close" \in data.cols
          /\ (data.len < 3 \/ LatestUndefined)) =>
        /\ result.signal = HOLD
        /\ result.strength = 0
        /\ result.description \in {"insufficient data", "RSI unavailable"}

\* C12: an empty frame and None alike get Hold with the insufficient-data
\* description, and the call never raises.  On None line 53 raises
\* AttributeError.
C12_EmptyOrNoneHold ==
    (Done /\ (data = NoneFrame \/ data.len = 0)) =>
        result = Signal(HOLD, "insufficient data", 0)

\* the call of a detector that has returned
ReturnedFrom(op) == pc = "returned" /\ result.op = op

\* at least 50 rows and both moving averages defined on the latest row
TrendReadable == data.len >= 50 /\ IsNum(data.MA_20) /\ IsNum(data.MA_50)

\* C13: detect_trend returns 'uptrend' exactly when there are at least 50
\* rows and close > MA_20 > MA_50, 'downtrend' exactly when there are at
\* least 50 rows and close < MA_20 < MA_50, and 'neutral' in every other
\* case (fewer than 50 rows, an undefined moving average, any equality).
C13_DetectTrend ==
    ReturnedFrom("detect_trend") =>
        /\ result.value \in TrendLabels
        /\ result.value = "uptrend" <=>
              (TrendReadable /\ data.Close > data.MA_20 /\ data.MA_20 > data.MA_50)
        /\ result.value = "downtrend" <=>
              (TrendReadable /\ data.Close < data.MA_20 /\ data.MA_20 < data.MA_50)

\* 'neutral' on exactly 50 rows because MA_20 equals MA_50, with the close above both
C13_Witness ==
    /\ ReturnedFrom("detect_trend") /\ data.len = 50
    /\ data.Close = 105 /\ data.MA_20 = 100 /\ data.MA_50 = 100
    /\ result.value = "neutral"

ReversalWindowDefined ==
    LET w == data.RSI_Short
        lb == result.args[2]
    IN  /\ "RSI_Short" \in data.cols
        /\ Len(w) >= lb + 1
        /\ \A i \in (Len(w) - lb)..Len(w) : IsNum(w[i])

\* final value above the previous one, every earlier consecutive pair non-increasing
ReversalUp ==
    LET w == data.RSI_Short
        n == Len(w)
        lb == result.args[2]
    IN  /\ ReversalWindowDefined
        /\ w[n] > w[n-1]
        /\ \A i \in (n - lb)..(n - 2) : w[i] >= w[i+1]

\* final value below the previous one, every earlier consecutive pair non-decreasing
ReversalDown ==
    LET w == data.RSI_Short
        n == Len(w)
        lb == result.args[2]
    IN  /\ ReversalWindowDefined
        /\ w[n] < w[n-1]
        /\ \A i \in (n - lb)..(n - 2) : w[i] <= w[i+1]

\* C15: detect_rsi_reversal(lookback) returns 'up' exactly when, on the last
\* lookback+1 values, the final value exceeds the previous one and every
\* earlier consecutive pair is non-increasing; 'down' exactly when the final
\* value is below the previous one and every earlier pair is non-decreasing;
\* 'none' otherwise, in particular on a NaN in the window or fewer than
\* lookback+1 rows; the two conditions never hold together.
C15_Reversal ==
    ReturnedFrom("detect_rsi_reversal") =>
        /\ result.value \in {"up", "down", "none"}
        /\ result.value = "up" <=> ReversalUp
        /\ result.value = "down" <=> ReversalDown
        /\ ~(ReversalUp /\ ReversalDown)

\* the worked example: lookback 2 on [50, 40, 30, 35] yields 'up'
C15_Witness ==
    /\ ReturnedFrom("detect_rsi_reversal") /\ result.args = <<"RSI_Short", 2>>
    /\ "RSI_Short" \in data.cols /\ data.RSI_Short = <<50, 40, 30, 35>>
    /\ result.value = "up"

\* rows of the first half (1-7) and of the second half (8-15) of the 15-row window
FirstHalf == 1..7
SecondHalf == 8..15

\* at least 15 rows, both columns present, no NaN among the last 15 rows
DivergenceWindowDefined ==
    /\ data.len >= 15
    /\ "RSI_Medium" \in data.cols /\ "Close" \in data.cols
    /\ \A i \in 1..15 : IsNum(data.Close15[i]) /\ IsNum(data.RSI15[i])

\* price down and RSI up over the window, a lower price low and a higher RSI
\* low in the second half
BullishCondition ==
    LET P == data.Close15
        R == data.RSI15
    IN  /\ DivergenceWindowDefined
        /\ P[15] - P[1] < 0 /\ R[15] - R[1] > 0
        /\ \E j \in SecondHalf : \A i \in FirstHalf : P[j] < P[i]
        /\ \E i \in FirstHalf : \A j \in SecondHalf : R[j] > R[i]

\* price up and RSI down over the window, a higher price high and a lower RSI
\* high in the second half
BearishCondition ==
    LET P == data.Close15
        R == data.RSI15
    IN  /\ DivergenceWindowDefined
        /\ P[15] - P[1] > 0 /\ R[15] - R[1] < 0
        /\ \E j \in SecondHalf : \A i \in FirstHalf : P[j] > P[i]
        /\ \E i \in FirstHalf : \A j \in SecondHalf : R[j] < R[i]

\* C16: detect_rsi_divergence(lookback=14) returns 'bullish' exactly when, on
\* the last 15 rows, price change < 0, RSI change > 0, the second half's price
\* low is below the first half's and its RSI low above the first half's;
\* 'bearish' exactly when price change > 0, RSI change < 0, the second half's
\* price high is above the first half's and its RSI high below the first
\* half's; 'none' otherwise, in particular below 15 rows or on any NaN; the
\* two conditions never hold together.
C16_Divergence ==
    ReturnedFrom("detect_rsi_divergence") =>
        /\ result.value \in {"bullish", "bearish", "none"}
        /\ result.value = "bullish" <=> BullishCondition
        /\ result.value = "bearish" <=> BearishCondition
        /\ ~(BullishCondition /\ BearishCondition)

\* a bullish divergence whose lower price low is set on row 8 alone
C16_Witness ==
    /\ ReturnedFrom("detect_rsi_divergence")
    /\ data.Close15 = Window15(3, 3, 1, 2, 2) /\ data.RSI15 = Window15(40, 40, 50, 60, 60)
    /\ data.len = 15 /\ data.cols = AllCols
    /\ result.value = "bullish"

\* calculate_rsi returned a series (the frame has its Close column)
RsiReturned == ReturnedFrom("calculate_rsi") /\ "Close" \in data.cols

\* a float that is a number between lo and hi
Within(x, lo, hi) == x.den > 0 /\ lo * x.den <= x.num /\ x.num <= hi * x.den

\* C17: at every row where the smoothed average loss is 0 (the first row and
\* flat series included, where the average gain is 0 too) the RSI is 100,
\* never NaN or infinite.  The code divides avg_gain by avg_loss without a
\* special case: 0/0 leaves NaN on those rows.
C17_ZeroLossIsHundred ==
    RsiReturned =>
        \A i \in 1..data.len :
            avg_loss(data.Closes, result.args[1], i) = 0 => Within(result.value[i], 100, 100)

\* C18: on a series of positive prices with at least period+1 rows, every RSI
\* value at index >= period (row period+1 onwards) is a number in [0, 100].
\* A flat series is such a series and has NaN on every row, by the division of C17.
C18_RsiInRange ==
    (RsiReturned /\ data.len >= result.args[1] + 1) =>
        \A i \in (result.args[1] + 1)..data.len : Within(result.value[i], 0, 100)

\* the latest RSI values behind a row of the summary, in column order
RowRsi(row) == get_latest_rsi_values(calculate_all_rsi(data[row.symbol]))

\* C19: in every row of the batch summary each RSI cell reads 'N/A' exactly
\* when that RSI value is undefined, and is otherwise the value with one
\* decimal: a defined 0 shows as '0.0', a NaN as 'N/A'.  The code selects
\* by truth value: 0.0 shows as 'N/A' and NaN is formatted as 'nan'.
C19_RsiCells ==
    ReturnedFrom("get_all_signals") =>
        \A k \in 1..Len(result.value) :
            LET row == result.value[k]
                cells == <<row.short_rsi, row.medium_rsi, row.long_rsi>>
            IN  \A i \in 1..3 :
                    /\ cells[i] = "N/A" <=> ~IsNum(RowRsi(row)[i])
                    /\ IsNum(RowRsi(row)[i]) => cells[i] = ToString(RowRsi(row)[i]) \o ".0"

\* C20: no stage mutates its input.  After any sequence of calls to
\* calculate_all_rsi, calculate_multiple_moving_averages, detect_trend,
\* is_trend_strong, the pattern detectors, generate_signal and
\* get_all_signals, every frame the caller holds has the columns and values
\* it had when the caller supplied or received it, and the calculator's
\* configuration is what it was constructed with.
C20_NoMutation ==
    /\ Len(heap) = Len(data)
    /\ \A ref \in 1..Len(heap) : heap[ref] = data[ref]
    /\ config = DefaultConfig

\* the pipeline of app.py: calculate_all_rsi on a 50-row price frame, then
\* generate_signal on its result, which computes the moving averages on a
\* copy of its own: the price frame still has Close only, the RSI frame
\* still has no moving averages
C20_Witness ==
    /\ ReturnedFrom("generate_signal") /\ result.args = <<2>>
    /\ result.value.signal \in {HOLD, BUY, SELL, STRONG_BUY, STRONG_SELL}
    /\ Len(heap) = 2 /\ heap[1].len >= 50
    /\ heap[1].cols = {"Close"}
    /\ heap[2].cols = {"Close"} \cup RsiColumns

\* generate_signal got past its early exits and evaluated the rules (the
\* latest RSI values may still be NaN)
ReachedTheRules == Done /\ locals # NoLocals

\* C21: in a strong uptrend generate_signal never returns StrongSell, whatever
\* the RSI values, reversal, falling flag and divergence: an input that
\* satisfies the StrongSell rule there is returned by the strong-uptrend guard
\* as Sell with strength sellStrength x 0.8, and every Sell returned in a
\* strong uptrend has short RSI >= 85 with a 'down' reversal.
C21_NoStrongSellInStrongUptrend ==
    /\ (ReachedTheRules /\ StrongUptrend) =>
          /\ result.signal # STRONG_SELL
          /\ result.signal = SELL => (Ge(Short, 85) /\ Reversal = "down")
    /\ (Classified /\ StrongUptrend /\ StrongSellMatches) =>
          (result.signal = SELL /\ result.strength = Tenths(SellStrength, 8))

\* a strong uptrend whose input satisfies the StrongSell rule with a bearish
\* divergence, returned as Sell
C21_Witness ==
    /\ Classified /\ StrongUptrend /\ StrongSellMatches /\ Divergence = "bearish"
    /\ result.signal = SELL /\ result.strength = Tenths(SellStrength, 8)

\* some buy rule, some sell rule (the strong-uptrend guard's Sell included)
\* matches the features
BuyRuleMatches(f) == StrongBuyRule(f) \/ BuyRule(f)
SellRuleMatches(f) ==
    \/ StrongUptrendGuard(f) /\ GuardSellRule(f)
    \/ StrongSellRule(f)
    \/ SellRule(f)

\* the rules of lines 109-200 with the sell side (guard, StrongSell, Sell)
\* tested before the buy side
ClassifySellFirst(f) ==
    IF StrongUptrendGuard(f) /\ GuardSellRule(f) THEN GuardSellSignal(f)
    ELSE IF StrongUptrendGuard(f) /\ GuardHoldRule(f) THEN GuardHoldSignal(f)
    ELSE IF StrongSellRule(f) THEN StrongSellSignal(f)
    ELSE IF SellRule(f) THEN SellSignal(f)
    ELSE IF StrongBuyRule(f) THEN StrongBuySignal(f)
    ELSE IF BuyRule(f) THEN BuySignal(f)
    ELSE DefaultHoldSignal(f)

\* C22: in every trend context StrongBuy or Buy is returned only when short
\* RSI <= 30, and Sell or StrongSell only when short RSI >= 70; so no input
\* satisfies a buy rule and a sell rule at once, and the result is the same
\* with the sell rules tested before the buy rules.
C22_BuySellDisjoint ==
    ReachedTheRules =>
        /\ result.signal \in {STRONG_BUY, BUY} => Le(Short, 30)
        /\ result.signal \in {SELL, STRONG_SELL} => Ge(Short, 70)
        /\ ~(BuyRuleMatches(locals) /\ SellRuleMatches(locals))
        /\ result = ClassifySellFirst(locals)

\* a Buy at short RSI exactly 30, in a trend context that leaves the buy
\* threshold at 30
C22_Witness ==
    /\ Classified /\ result.signal = BUY /\ Short = 30 /\ BuyThr = 30
    /\ ~SellRuleMatches(locals)

\* the symbols whose fetch has finished with a frame
Fetched == { s \in StockSymbols : futures[s].state = "finished" /\ futures[s].value # NoneFrame }

\* C23: under any interleaving and completion order of the fetch workers,
\* get_all_stocks_data returns a mapping that contains exactly the symbols
\* of STOCKS whose fetch returned a non-None frame, each mapped to the result
\* of its own fetch; a fetch that fails neither aborts the call nor removes
\* or overwrites another symbol's entry (while the results are collected
\* all_data holds exactly the frames yielded so far, and until the call has
\* returned some step of it can be taken); and the call returns only after
\* every submitted fetch has completed.
C23_ParallelFetch ==
    /\ DOMAIN locals.all_data = { s \in Fetched : futures[s].yielded }
    /\ \A s \in DOMAIN locals.all_data :
          locals.all_data[s] = futures[s].value /\ locals.all_data[s].ticker = s
    /\ pc # "returned" => ENABLED NextFetch
    /\ pc = "returned" =>
          /\ \A s \in StockSymbols : futures[s].state = "finished"
          /\ result.value = locals.all_data
          /\ DOMAIN result.value = Fetched

\* the call returned two symbols' frames after the other three fetches
\* came back with None
C23_Witness ==
    /\ ReturnedFrom("get_all_stocks_data")
    /\ DOMAIN result.value = {"NVDA", "TQQQ"}
    /\ result.value["NVDA"] = StockFrame("NVDA") /\ result.value["TQQQ"] = StockFrame("TQQQ")
    /\ \A s \in StockSymbols \ {"NVDA", "TQQQ"} :
          futures[s].state = "finished" /\ futures[s].value = NoneFrame

====
